---- MODULE Spec2Model ----
(***************************************************************************)
(* Model of dashboard/dashboard.py: the load-and-transform step            *)
(* (load_data), the date-range filter and the aggregations that the        *)
(* Streamlit script recomputes on every run.  The model starts from the    *)
(* two tables as pd.read_csv returns them (lines 15-16); locating the      *)
(* files (lines 11-13, which use os without importing it) is not modelled. *)
(*                                                                         *)
(* Representation                                                          *)
(*   - a table (DataFrame) is a sequence of rows; a row is a record whose  *)
(*     fields are the columns; position i carries RangeIndex label i - 1;  *)
(*   - a CSV date text 'YYYY-MM-DD' is the triple <<Y, M, D>>;             *)
(*   - a pandas Timestamp is an integer count of hours since               *)
(*     2011-01-01T00:00 (dates of the year 2011 only);                     *)
(*   - a datetime.date is a record [year, month, day];                     *)
(*   - the normalised columns temp, atemp, hum, windspeed are fixed-point  *)
(*     numbers in hundredths (24 stands for 0.24); multiplication by an    *)
(*     integer is exact on them;                                           *)
(*   - a mean is the exact fraction [num, den] in lowest terms, the float  *)
(*     NaN being 0/0; a missing label is the value NaN.                    *)
(***************************************************************************)
EXTENDS Integers, Sequences, FiniteSets, TLC

VARIABLES
    day_csv,          \* day.csv as read by pd.read_csv
    hour_csv,         \* hour.csv as read by pd.read_csv
    observed_default, \* the installed pandas' default for groupby(observed=)
    cache,            \* st.cache_data entry of load_data: None or [Day, Hour]
    script,           \* "not_run", "rendered" or "stopped" (st.stop())
    df_Day,           \* script globals at the end of the last run
    df_Hour,
    start_date,
    end_date,
    main_df_Day,
    main_df_Hour,
    kpi,
    season_bars,
    weather_bars,
    time_stats,
    daily_user_stats

vars == <<day_csv, hour_csv, observed_default, cache, script, df_Day, df_Hour,
          start_date, end_date, main_df_Day, main_df_Hour, kpi, season_bars,
          weather_bars, time_stats, daily_user_stats>>

\* Bounds of the explored inputs.
MaxDayRows == 2
MaxHourRows == 2

None == "None"

\* A missing value in a column of labels.
NaN == "NaN"

----------------------------------------------------------------------------
\* Calendar (the year 2011, in which the data set starts).

EpochYear == 2011

DaysInMonth == <<31, 28, 31, 30, 31, 30, 31, 31, 30, 31, 30, 31>>

RECURSIVE DaysBefore(_)
DaysBefore(m) == IF m = 1 THEN 0 ELSE DaysBefore(m - 1) + DaysInMonth[m - 1]

\* Day number within the year, 0 for January 1st, of the civil date y-m-d.
Ordinal(y, m, d) == (y - EpochYear) * 365 + DaysBefore(m) + (d - 1)

\* The civil date of day number n.
CivilOf(n) ==
    LET m == CHOOSE k \in 1..12 : DaysBefore(k) <= n /\ n < DaysBefore(k) + DaysInMonth[k]
    IN  [year |-> EpochYear, month |-> m, day |-> n - DaysBefore(m) + 1]

\* pd.to_datetime / the parse pandas applies to a date string in a comparison.
to_datetime(text) == Ordinal(text[1], text[2], text[3]) * 24

\* Timestamp.date(): date_input turns min_value / max_value into dates.
TimestampDate(ts) == CivilOf(ts \div 24)

\* str(datetime.date) is the ISO text of the date.
DateStr(d) == <<d.year, d.month, d.day>>

WeekdayNames == <<"Monday", "Tuesday", "Wednesday", "Thursday", "Friday",
                  "Saturday", "Sunday">>

\* Series.dt.day_name(): 2011-01-01 is a Saturday.
day_name(ts) == WeekdayNames[(((ts \div 24) + 5) % 7) + 1]

----------------------------------------------------------------------------
\* Rows of the two CSV files.

DayCsvRow(ord, season, weathersit, temp, atemp, hum, windspeed, casual, registered) ==
    LET c  == CivilOf(ord)
        wd == (ord + 6) % 7
    IN  [dteday |-> <<c.year, c.month, c.day>>, season |-> season, yr |-> 0,
         mnth |-> c.month, holiday |-> 0, weekday |-> wd,
         workingday |-> IF wd \in 1..5 THEN 1 ELSE 0,
         weathersit |-> weathersit, temp |-> temp, atemp |-> atemp, hum |-> hum,
         windspeed |-> windspeed, casual |-> casual, registered |-> registered,
         cnt |-> casual + registered]

HourCsvRow(ord, hr, season, weathersit, temp, atemp, hum, windspeed, casual, registered) ==
    LET r == DayCsvRow(ord, season, weathersit, temp, atemp, hum, windspeed,
                       casual, registered)
    IN  [k \in DOMAIN r \cup {"hr"} |-> IF k = "hr" THEN hr ELSE r[k]]

----------------------------------------------------------------------------
\* DataFrame helpers.

SetCol(row, col, v) == [k \in DOMAIN row \cup {col} |-> IF k = col THEN v ELSE row[k]]

Column(df, col) == [i \in 1..Len(df) |-> df[i][col]]

RECURSIVE SumSeq(_)
SumSeq(s) == IF s = <<>> THEN 0 ELSE Head(s) + SumSeq(Tail(s))

RECURSIVE GCD(_, _)
GCD(a, b) == IF b = 0 THEN a ELSE GCD(b, a % b)

\* A float NaN, as the fraction 0/0.
NaNFloat == [num |-> 0, den |-> 0]

\* Series.mean(): NaN on no values.
Mean(s) ==
    IF s = <<>> THEN NaNFloat
    ELSE LET t == SumSeq(s)
             g == GCD(IF t < 0 THEN -t ELSE t, Len(s))
         IN  [num |-> t \div g, den |-> Len(s) \div g]

----------------------------------------------------------------------------
\* load_data

rename_dict ==
    [dteday |-> "date", yr |-> "year", mnth |-> "month", hr |-> "hour",
     holiday |-> "is_holiday", weekday |-> "day_of_week",
     workingday |-> "is_workingday", weathersit |-> "weather_condition",
     temp |-> "temperature_celsius", atemp |-> "feels_like_temperature_celsius",
     hum |-> "humidity_percentage", windspeed |-> "windspeed_kmh",
     casual |-> "casual_users", registered |-> "registered_users",
     cnt |-> "total_users"]

NewName(c) == IF c \in DOMAIN rename_dict THEN rename_dict[c] ELSE c

\* DataFrame.rename(columns=rename_dict): columns outside the dict keep their name.
rename(df) ==
    [i \in 1..Len(df) |->
        [k \in {NewName(c) : c \in DOMAIN df[i]} |->
            df[i][CHOOSE c \in DOMAIN df[i] : NewName(c) = k]]]

fix_types(df) == [i \in 1..Len(df) |-> SetCol(df[i], "date", to_datetime(df[i].date))]

TempScale == 41
HumScale == 100
WindScale == 67

denormalize(df) ==
    [i \in 1..Len(df) |->
        LET r1 == SetCol(df[i], "temperature_celsius", df[i].temperature_celsius * TempScale)
            r2 == SetCol(r1, "humidity_percentage", r1.humidity_percentage * HumScale)
        IN  SetCol(r2, "windspeed_kmh", r2.windspeed_kmh * WindScale)]

season_map == <<"Spring", "Summer", "Fall", "Winter">>
weather_map == <<"Clear/Partly Cloudy", "Mist/Cloudy", "Light Snow/Rain", "Severe Weather">>

\* Series.map(dict): a key missing from the dict gives NaN.
MapDict(d, key) == IF key \in DOMAIN d THEN d[key] ELSE NaN

map_labels(df) ==
    [i \in 1..Len(df) |->
        SetCol(SetCol(df[i], "season_label", MapDict(season_map, df[i].season)),
               "weather_label", MapDict(weather_map, df[i].weather_condition))]

\* The boundaries taken as closed on the right.
categorize_time_closed(hour) ==
    IF 0 <= hour /\ hour <= 6 THEN "Night"
    ELSE IF 6 < hour /\ hour <= 12 THEN "Morning"
    ELSE IF 12 < hour /\ hour <= 18 THEN "Afternoon"
    ELSE "Evening"

categorize_time(hour) ==
    IF 0 <= hour /\ hour < 6 THEN "Night"
    ELSE IF 6 <= hour /\ hour < 12 THEN "Morning"
    ELSE IF 12 <= hour /\ hour < 18 THEN "Afternoon"
    ELSE "Evening"

categories == <<"Morning", "Afternoon", "Evening", "Night">>

\* pd.Categorical(values, categories=...): a value outside the categories is NaN.
Categorical(v) == IF \E k \in 1..Len(categories) : categories[k] = v THEN v ELSE NaN

clustering(df) ==
    [i \in 1..Len(df) |->
        SetCol(df[i], "time_category", Categorical(categorize_time(df[i].hour)))]

load_data(dayCsv, hourCsv) ==
    [Day  |-> map_labels(denormalize(fix_types(rename(dayCsv)))),
     Hour |-> clustering(map_labels(denormalize(fix_types(rename(hourCsv)))))]

----------------------------------------------------------------------------
\* Range filter (script lines 85-90).

\* (df['date'] >= str(start_date)) & (df['date'] <= str(end_date))
date_mask_open_end(df, start, end) ==
    [i \in 1..Len(df) |->
        /\ df[i].date >= to_datetime(DateStr(start))
        /\ df[i].date < to_datetime(DateStr(end))]

date_mask(df, start, end) ==
    [i \in 1..Len(df) |->
        /\ df[i].date >= to_datetime(DateStr(start))
        /\ df[i].date <= to_datetime(DateStr(end))]

RECURSIVE Where(_, _)
Where(mask, i) ==
    IF i > Len(mask) THEN <<>>
    ELSE (IF mask[i] THEN <<i>> ELSE <<>>) \o Where(mask, i + 1)

\* df[mask] with the result aliasing df's data instead of copying it.
boolean_index_view(df, mask) ==
    LET pos == Where(mask, 1)
    IN  [index   |-> [k \in 1..Len(pos) |-> pos[k] - 1],
         rows    |-> [k \in 1..Len(pos) |-> df[pos[k]]],
         is_copy |-> FALSE]

\* df[mask]: the selected rows under their original index labels, in the
\* original order; boolean indexing always returns a copy of the data.
boolean_index(df, mask) ==
    LET pos == Where(mask, 1)
    IN  [index   |-> [k \in 1..Len(pos) |-> pos[k] - 1],
         rows    |-> [k \in 1..Len(pos) |-> df[pos[k]]],
         is_copy |-> TRUE]

----------------------------------------------------------------------------
\* Aggregations.

GroupRows(rows, col, key) ==
    LET Test(r) == r[col] = key
    IN  SelectSeq(rows, Test)

Present(rows, col, key) == \E k \in 1..Len(rows) : rows[k][col] = key

\* seaborn's categorical_order for a column of strings: the distinct non-null
\* values in order of first appearance.
RECURSIVE categorical_order(_, _)
categorical_order(values, seen) ==
    IF values = <<>> THEN seen
    ELSE LET v == Head(values)
         IN  IF v = NaN \/ (\E k \in 1..Len(seen) : seen[k] = v)
             THEN categorical_order(Tail(values), seen)
             ELSE categorical_order(Tail(values), Append(seen, v))

\* sns.barplot(x=x, y='total_users', data=frame, errorbar=None): one bar per
\* level of x, its height the mean of total_users.
barplot(frame, x) ==
    LET order == categorical_order(Column(frame.rows, x), <<>>)
    IN  [k \in 1..Len(order) |->
            [label |-> order[k],
             total_users |-> Mean(Column(GroupRows(frame.rows, x, order[k]), "total_users"))]]

\* frame.groupby('time_category')[['total_users']].mean().reset_index()
groupby_time_category(frame, observed) ==
    LET Seen(c) == Present(frame.rows, "time_category", c)
        keys == IF observed THEN SelectSeq(categories, Seen) ELSE categories
    IN  [k \in 1..Len(keys) |->
            [time_category |-> keys[k],
             total_users |->
                Mean(Column(GroupRows(frame.rows, "time_category", keys[k]), "total_users"))]]

\* The weekday names in the lexicographic order groupby sorts its keys in.
SortedDayNames == <<"Friday", "Monday", "Saturday", "Sunday", "Thursday",
                    "Tuesday", "Wednesday">>

day_order == <<"Monday", "Tuesday", "Wednesday", "Thursday", "Friday",
               "Saturday", "Sunday">>

\* main_df_Day['day_name'] = main_df_Day['date'].dt.day_name(), on the frame
assign_day_name(frame) ==
    [frame EXCEPT !.rows =
        [k \in 1..Len(frame.rows) |->
            SetCol(frame.rows[k], "day_name", day_name(frame.rows[k].date))]]

\* ... and on the table the frame was taken from: untouched when the frame
\* is a copy, written through (NaN where unselected) when it is a view.
assign_day_name_base(base, frame) ==
    IF frame.is_copy THEN base
    ELSE [i \in 1..Len(base) |->
            SetCol(base[i], "day_name",
                   IF \E k \in 1..Len(frame.index) : frame.index[k] = i - 1
                   THEN day_name(base[i].date) ELSE NaN)]

\* frame.groupby('day_name')[['casual_users', 'registered_users']].mean()
groupby_day_name(frame) ==
    LET Seen(n) == Present(frame.rows, "day_name", n)
        keys == SelectSeq(SortedDayNames, Seen)
    IN  [k \in 1..Len(keys) |->
            LET g == GroupRows(frame.rows, "day_name", keys[k])
            IN  [day_name |-> keys[k],
                 casual_users |-> Mean(Column(g, "casual_users")),
                 registered_users |-> Mean(Column(g, "registered_users"))]]

\* The grouped table as it is, without the reindex.
reindex_skipped(grouped, order) == grouped

\* DataFrame.reindex(order): one row per label of order, NaN where absent.
reindex(grouped, order) ==
    [k \in 1..Len(order) |->
        IF \E j \in 1..Len(grouped) : grouped[j].day_name = order[k]
        THEN grouped[CHOOSE j \in 1..Len(grouped) : grouped[j].day_name = order[k]]
        ELSE [day_name |-> order[k], casual_users |-> NaNFloat,
              registered_users |-> NaNFloat]]

----------------------------------------------------------------------------
\* Inputs: the contents of day.csv and hour.csv.

\* Normalised (temp, atemp, hum, windspeed) readings, in hundredths.
Mild == <<24, 29, 81, 16>>
Extreme == <<100, 50, 1, 0>>

Tables(rowSet, maxRows) == UNION {[1..n -> rowSet] : n \in 1..maxRows}

\* day.csv holds one row per calendar day.
DistinctDates(t) == \A i, j \in 1..Len(t) : t[i].dteday = t[j].dteday => i = j

\* Tables that differ in dates and user counts: Jan 31, Feb 1 and Feb 7 2011
\* (two Mondays and a Tuesday), and hours before, within and after them.
RangeDayRows ==
    {DayCsvRow(30, 1, 1, Mild[1], Mild[2], Mild[3], Mild[4], 1, 9),
     DayCsvRow(30, 1, 1, Mild[1], Mild[2], Mild[3], Mild[4], 5, 15),
     DayCsvRow(31, 1, 2, Mild[1], Mild[2], Mild[3], Mild[4], 5, 15),
     DayCsvRow(37, 2, 1, Mild[1], Mild[2], Mild[3], Mild[4], 4, 7)}

RangeHourRows ==
    {HourCsvRow(29, 3, 1, 1, Mild[1], Mild[2], Mild[3], Mild[4], 1, 2),
     HourCsvRow(31, 8, 1, 2, Mild[1], Mild[2], Mild[3], Mild[4], 2, 4),
     HourCsvRow(38, 20, 1, 1, Mild[1], Mild[2], Mild[3], Mild[4], 3, 7)}

InitRange ==
    /\ day_csv \in {t \in Tables(RangeDayRows, MaxDayRows) : DistinctDates(t)}
    /\ hour_csv \in Tables(RangeHourRows, MaxHourRows)

\* Tables that differ in the hour of day, values outside 0..23 included.
ClockHourRows ==
    {HourCsvRow(30, h, 1, 1, Mild[1], Mild[2], Mild[3], Mild[4], 2, 3) : h \in -1..24}

\* hour.csv holds the hours of a day in increasing order, one row per hour.
IncreasingHours(t) == \A i, j \in 1..Len(t) : i < j => t[i].hr < t[j].hr

InitClock ==
    /\ day_csv = <<DayCsvRow(30, 1, 1, Mild[1], Mild[2], Mild[3], Mild[4], 1, 9)>>
    /\ hour_csv \in {t \in Tables(ClockHourRows, MaxHourRows) : IncreasingHours(t)}

\* Tables that differ in the season and weather codes (0 and 5 are not codes
\* of the data set) and in the normalised readings.
CodePairs == {<<0, 5>>, <<1, 1>>, <<2, 2>>, <<3, 4>>, <<4, 3>>, <<5, 0>>}

CodeDayRows ==
    {DayCsvRow(30, c[1], c[2], Mild[1], Mild[2], Mild[3], Mild[4], 4, 6) :
        c \in CodePairs}
    \cup
    {DayCsvRow(31, c[1], c[2], Extreme[1], Extreme[2], Extreme[3], Extreme[4], 3, 5) :
        c \in CodePairs}

CodeHourRows ==
    {HourCsvRow(30, 9, 0, 5, Mild[1], Mild[2], Mild[3], Mild[4], 2, 3),
     HourCsvRow(31, 21, 4, 2, Extreme[1], Extreme[2], Extreme[3], Extreme[4], 1, 1)}

InitCodes ==
    /\ day_csv \in {t \in Tables(CodeDayRows, MaxDayRows) : DistinctDates(t)}
    /\ hour_csv \in Tables(CodeHourRows, MaxHourRows)

Init ==
    /\ \/ InitRange
       \/ InitClock
       \/ InitCodes
    /\ observed_default \in BOOLEAN
    /\ cache = <<>>
    /\ script = "not_run"
    /\ df_Day = None
    /\ df_Hour = None
    /\ start_date = None
    /\ end_date = None
    /\ main_df_Day = None
    /\ main_df_Hour = None
    /\ kpi = None
    /\ season_bars = None
    /\ weather_bars = None
    /\ time_stats = None
    /\ daily_user_stats = None

----------------------------------------------------------------------------
\* The script.

\* load_data() under @st.cache_data: computed on the first run, the cached
\* value (a fresh copy of it) on the later ones.
cached_load_data == IF cache = <<>> THEN load_data(day_csv, hour_csv) ELSE cache[1]

MinOf(s) == CHOOSE x \in {s[i] : i \in 1..Len(s)} : \A i \in 1..Len(s) : x <= s[i]
MaxOf(s) == CHOOSE x \in {s[i] : i \in 1..Len(s)} : \A i \in 1..Len(s) : x >= s[i]

DateLE(a, b) ==
    \/ a.year < b.year
    \/ a.year = b.year /\ a.month < b.month
    \/ a.year = b.year /\ a.month = b.month /\ a.day <= b.day

\* The dates a user is offered to click: Jan 31, Feb 1, Feb 2 and Feb 7 2011.
PickDates == {CivilOf(n) : n \in {30, 31, 32, 37}}

\* What st.sidebar.date_input lets through: dates from min_value to max_value.
\* The widget's own ordering of the two dates is a property of the browser
\* component; the script does not check it.
DateInputDates(data) ==
    LET lo == TimestampDate(MinOf(Column(data.Day, "date")))
        hi == TimestampDate(MaxOf(Column(data.Day, "date")))
    IN  {d \in PickDates : DateLE(lo, d) /\ DateLE(d, hi)}

\* Lines 85-190 for the selection (s, e).
Render(data, s, e) ==
    LET day   == boolean_index(data.Day, date_mask(data.Day, s, e))
        hour  == boolean_index(data.Hour, date_mask(data.Hour, s, e))
        named == assign_day_name(day)
    IN  /\ start_date' = s
        /\ end_date' = e
        /\ kpi' = [total_orders |-> SumSeq(Column(day.rows, "total_users")),
                   total_casual |-> SumSeq(Column(day.rows, "casual_users")),
                   total_registered |-> SumSeq(Column(day.rows, "registered_users"))]
        /\ season_bars' = barplot(day, "season_label")
        /\ weather_bars' = barplot(day, "weather_label")
        /\ main_df_Hour' = hour
        /\ time_stats' = groupby_time_category(hour, observed_default)
        /\ main_df_Day' = named
        /\ df_Day' = assign_day_name_base(data.Day, day)
        /\ df_Hour' = data.Hour
        /\ daily_user_stats' = reindex(groupby_day_name(named), day_order)
        /\ script' = "rendered"

\* The first run of the script: load_data runs, date_input returns its
\* default value [min_date, max_date].
FirstRun ==
    /\ script = "not_run"
    /\ LET data == cached_load_data
       IN  /\ cache' = <<data>>
           /\ Render(data, TimestampDate(MinOf(Column(data.Day, "date"))),
                     TimestampDate(MaxOf(Column(data.Day, "date"))))
    /\ UNCHANGED <<day_csv, hour_csv, observed_default>>

\* A later run, the user having picked both dates of the range.
Rerun ==
    /\ script # "not_run"
    /\ LET data == cached_load_data
       IN  \E s \in DateInputDates(data), e \in DateInputDates(data) :
               Render(data, s, e)
    /\ UNCHANGED <<day_csv, hour_csv, observed_default, cache>>

\* A later run, the user having picked only the first date: unpacking the
\* one-element tuple raises ValueError, the script shows an error and stops.
RerunIncomplete ==
    /\ script # "not_run"
    /\ LET data == cached_load_data
       IN  /\ df_Day' = data.Day
           /\ df_Hour' = data.Hour
    /\ script' = "stopped"
    /\ start_date' = None
    /\ end_date' = None
    /\ main_df_Day' = None
    /\ main_df_Hour' = None
    /\ kpi' = None
    /\ season_bars' = None
    /\ weather_bars' = None
    /\ time_stats' = None
    /\ daily_user_stats' = None
    /\ UNCHANGED <<day_csv, hour_csv, observed_default, cache>>

Next ==
    \/ FirstRun
    \/ Rerun
    \/ RerunIncomplete

Spec == Init /\ [][Next]_vars

----------------------------------------------------------------------------
\* Properties.

Loaded == script # "not_run"
Rendered == script = "rendered"

InRange(row, s, e) ==
    DateLE(s, TimestampDate(row.date)) /\ DateLE(TimestampDate(row.date), e)

SameOn(r, base) == \A c \in DOMAIN base : r[c] = base[c]

\* frame holds exactly the rows of df dated within [s, e], in df's order.
FilterExact(frame, df, s, e) ==
    /\ Len(frame.index) = Len(frame.rows)
    /\ \A k \in 1..Len(frame.rows) :
          /\ frame.index[k] + 1 \in 1..Len(df)
          /\ SameOn(frame.rows[k], df[frame.index[k] + 1])
    /\ \A k, l \in 1..Len(frame.index) : k < l => frame.index[k] < frame.index[l]
    /\ {frame.index[k] + 1 : k \in 1..Len(frame.index)}
          = {i \in 1..Len(df) : InRange(df[i], s, e)}

\* C1: with start_date <= end_date the filtered daily and hourly tables hold
\* exactly the rows dated within [start_date, end_date], in their original
\* order; with start_date = end_date = D exactly the rows dated D; and a table
\* all of whose dates lie before start_date or after end_date filters to an
\* empty table.
C1_RangeFilterInclusive ==
    (Rendered /\ DateLE(start_date, end_date)) =>
        /\ FilterExact(main_df_Day, df_Day, start_date, end_date)
        /\ FilterExact(main_df_Hour, df_Hour, start_date, end_date)
        /\ start_date = end_date =>
              \A f \in {main_df_Day, main_df_Hour} :
                  \A k \in 1..Len(f.rows) : TimestampDate(f.rows[k].date) = start_date
        /\ (\A i \in 1..Len(df_Hour) :
               \/ ~DateLE(start_date, TimestampDate(df_Hour[i].date))
               \/ ~DateLE(TimestampDate(df_Hour[i].date), end_date))
              => main_df_Hour.rows = <<>>

\* A single day D selected out of a longer daily table, and an hourly table
\* whose dates all lie before D.
C1_Witness ==
    /\ Rendered
    /\ start_date = end_date
    /\ Len(df_Day) >= 2
    /\ Len(main_df_Day.rows) = 1
    /\ Len(df_Hour) >= 1
    /\ \A i \in 1..Len(df_Hour) : ~DateLE(start_date, TimestampDate(df_Hour[i].date))
    /\ main_df_Hour.rows = <<>>

HourBuckets == <<"Night", "Morning", "Afternoon", "Evening">>

\* C2: every hour 0..23 of the hourly table gets exactly one of the four
\* categories: [0,6) Night, [6,12) Morning, [12,18) Afternoon, [18,24) Evening.
C2_TimeBuckets ==
    Loaded =>
        \A i \in 1..Len(hour_csv) :
            hour_csv[i].hr \in 0..23 =>
                df_Hour[i].time_category = HourBuckets[(hour_csv[i].hr \div 6) + 1]

\* Hours 11 and 12, either side of a boundary, in one table.
C2_Witness ==
    /\ Loaded
    /\ \E i, j \in 1..Len(df_Hour) :
          /\ df_Hour[i].hour = 11 /\ df_Hour[i].time_category = "Morning"
          /\ df_Hour[j].hour = 12 /\ df_Hour[j].time_category = "Afternoon"

\* The columns load_data is said to leave as read.
PlainColumns ==
    {"season", "year", "month", "is_holiday", "day_of_week", "is_workingday",
     "weather_condition", "casual_users", "registered_users", "total_users"}

DenormalizedFour(csv, df) ==
    /\ Len(df) = Len(csv)
    /\ \A i \in 1..Len(csv) :
          /\ df[i].temperature_celsius = csv[i].temp * 41
          /\ df[i].feels_like_temperature_celsius = csv[i].atemp * 41
          /\ df[i].humidity_percentage = csv[i].hum * 100
          /\ df[i].windspeed_kmh = csv[i].windspeed * 67
          /\ \A c \in PlainColumns :
                df[i][c] = csv[i][CHOOSE o \in DOMAIN csv[i] : NewName(o) = c]

\* C3: after load_data, in both tables, temperature_celsius and
\* feels_like_temperature_celsius are the raw value times 41,
\* humidity_percentage the raw value times 100, windspeed_kmh the raw value
\* times 67, each scaled once, and every other numeric column is as read.
C3_DenormalizedOnce ==
    Loaded => DenormalizedFour(day_csv, df_Day) /\ DenormalizedFour(hour_csv, df_Hour)

\* C4: a row whose hour is outside 0..23 makes the time bucketing fail: the
\* row is given none of the four categories.
C4_HourOutOfRangeRejected ==
    Loaded =>
        \A i \in 1..Len(hour_csv) :
            hour_csv[i].hr \notin 0..23 =>
                df_Hour[i].time_category \notin {"Night", "Morning", "Afternoon", "Evening"}

LabelsTotal(df) ==
    \A i \in 1..Len(df) :
        /\ df[i].season_label =
              (IF df[i].season \in 1..4 THEN season_map[df[i].season] ELSE "unknown")
        /\ df[i].weather_label =
              (IF df[i].weather_condition \in 1..4
               THEN weather_map[df[i].weather_condition] ELSE "unknown")

\* C5: season and weather codes 1..4 get their labels, any other code gets the
\* label "unknown", and the load goes through.
C5_UnknownLabel ==
    Loaded => LabelsTotal(df_Day) /\ LabelsTotal(df_Hour)

\* C6: the filter never serves a range with start_date > end_date: it fails
\* with InvalidRangeError instead of returning a table.
C6_InvalidRangeRejected ==
    Rendered => DateLE(start_date, end_date)

\* C7: whatever ranges are selected, filtered and aggregated, the canonical
\* daily and hourly tables stay as load_data returned them.
C7_CanonicalUnchanged ==
    Loaded =>
        /\ cache = <<load_data(day_csv, hour_csv)>>
        /\ df_Day = cache[1].Day
        /\ df_Hour = cache[1].Hour

\* A run on a range other than the default one that assigned day_name to a
\* non-empty filtered daily table.
C7_Witness ==
    /\ Rendered
    /\ Len(df_Day) >= 2
    /\ Len(main_df_Day.rows) >= 1
    /\ Len(main_df_Day.rows) < Len(df_Day)
    /\ "day_name" \in DOMAIN main_df_Day.rows[1]
    /\ "day_name" \notin DOMAIN df_Day[1]

RECURSIVE SumOver(_, _)
SumOver(S, f) ==
    IF S = {} THEN 0 ELSE LET x == CHOOSE y \in S : TRUE IN f[x] + SumOver(S \ {x}, f)

\* m is the mean of f over the index set S (NaN on the empty set).
IsMeanOf(m, S, f) ==
    IF S = {} THEN m = NaNFloat
    ELSE m.den > 0 /\ m.num * Cardinality(S) = m.den * SumOver(S, f)

\* C8: the time_category aggregation always has the four entries Morning,
\* Afternoon, Evening, Night in this order, each with the mean of total_users
\* over its rows, a category without rows carrying an undefined value.
C8_FourTimeCategories ==
    Rendered =>
        /\ Len(time_stats) = 4
        /\ \A k \in 1..4 :
              /\ time_stats[k].time_category = categories[k]
              /\ IsMeanOf(time_stats[k].total_users,
                          {i \in 1..Len(df_Hour) :
                              /\ InRange(df_Hour[i], start_date, end_date)
                              /\ df_Hour[i].time_category = categories[k]},
                          [i \in 1..Len(df_Hour) |-> df_Hour[i].total_users])

\* The rows of the daily table selected by the range whose weekday column
\* (0 = Sunday) is that of the k-th name of Monday..Sunday.
WeekdayRows(k) ==
    {i \in 1..Len(df_Day) :
        /\ InRange(df_Day[i], start_date, end_date)
        /\ df_Day[i].day_of_week = k % 7}

\* C9: the day-of-week aggregation has one entry per weekday, in the order
\* Monday..Sunday, with the mean casual_users and registered_users of the
\* selected rows of that weekday, in whatever order the rows are.
C9_DayOfWeekOrder ==
    Rendered =>
        /\ Len(daily_user_stats) = 7
        /\ \A k \in 1..7 :
              /\ daily_user_stats[k].day_name = WeekdayNames[k]
              /\ IsMeanOf(daily_user_stats[k].casual_users, WeekdayRows(k),
                          [i \in 1..Len(df_Day) |-> df_Day[i].casual_users])
              /\ IsMeanOf(daily_user_stats[k].registered_users, WeekdayRows(k),
                          [i \in 1..Len(df_Day) |-> df_Day[i].registered_users])

\* Two Mondays, the later one first in the table, averaged into one entry.
C9_Witness ==
    /\ Rendered
    /\ Len(main_df_Day.rows) >= 2
    /\ main_df_Day.rows[1].date > main_df_Day.rows[2].date
    /\ main_df_Day.rows[1].day_name = "Monday"
    /\ main_df_Day.rows[2].day_name = "Monday"
    /\ daily_user_stats[1].casual_users # NaNFloat
    /\ daily_user_stats[2].casual_users = NaNFloat

\* C10: the season aggregation has, for each of the four seasons, an entry:
\* the mean of total_users over the season's rows, or an explicit "no data"
\* entry when the season has no rows.
C10_FourSeasons ==
    Rendered =>
        \A s \in 1..4 :
            \E k \in 1..Len(season_bars) :
                /\ season_bars[k].label = season_map[s]
                /\ IsMeanOf(season_bars[k].total_users,
                            {i \in 1..Len(df_Day) :
                                /\ InRange(df_Day[i], start_date, end_date)
                                /\ df_Day[i].season = s},
                            [i \in 1..Len(df_Day) |-> df_Day[i].total_users])

----------------------------------------------------------------------------
\* What the script does where the properties C3, C4, C5, C6, C8 and C10 above
\* do not hold.

DenormalizedThree(csv, df) ==
    /\ Len(df) = Len(csv)
    /\ \A i \in 1..Len(csv) :
          /\ df[i].temperature_celsius = csv[i].temp * 41
          /\ df[i].feels_like_temperature_celsius = csv[i].atemp
          /\ df[i].humidity_percentage = csv[i].hum * 100
          /\ df[i].windspeed_kmh = csv[i].windspeed * 67
          /\ \A c \in PlainColumns :
                df[i][c] = csv[i][CHOOSE o \in DOMAIN csv[i] : NewName(o) = c]

\* load_data scales temperature, humidity and wind speed once and leaves
\* feels_like_temperature_celsius as read.
FeelsLikeLeftNormalized ==
    Loaded => DenormalizedThree(day_csv, df_Day) /\ DenormalizedThree(hour_csv, df_Hour)

\* An hour outside 0..23 falls into the final else branch.
HourOutOfRangeIsEvening ==
    Loaded =>
        \A i \in 1..Len(hour_csv) :
            hour_csv[i].hr \notin 0..23 => df_Hour[i].time_category = "Evening"

\* A code outside 1..4 gets the missing value as its label.
UnknownCodeIsNaN ==
    Loaded =>
        \A df \in {df_Day, df_Hour} :
            \A i \in 1..Len(df) :
                /\ df[i].season_label = MapDict(season_map, df[i].season)
                /\ df[i].season \notin 1..4 => df[i].season_label = NaN
                /\ df[i].weather_condition \notin 1..4 => df[i].weather_label = NaN

\* A reversed range filters both tables to nothing and is rendered.
ReversedRangeIsEmpty ==
    (Rendered /\ ~DateLE(start_date, end_date)) =>
        main_df_Day.rows = <<>> /\ main_df_Hour.rows = <<>>

\* With groupby's observed=False default the four categories are all there.
FourTimeCategoriesUnobserved ==
    ~observed_default => C8_FourTimeCategories

\* With groupby's observed=True default a category without rows is dropped.
EmptyTimeCategoryDropped ==
    (observed_default /\ Rendered) =>
        \A c \in 1..4 :
            (\E i \in 1..Len(main_df_Hour.rows) :
                main_df_Hour.rows[i].time_category = categories[c])
            <=> (\E k \in 1..Len(time_stats) : time_stats[k].time_category = categories[c])

\* The season chart has a bar for exactly the seasons that have rows.
EmptySeasonDropped ==
    Rendered =>
        \A s \in 1..4 :
            (\E i \in 1..Len(main_df_Day.rows) : main_df_Day.rows[i].season = s)
            <=> (\E k \in 1..Len(season_bars) : season_bars[k].label = season_map[s])

====
